---- MODULE Spec2Model ----
(***************************************************************************)
(* Task Tree Store of your-daily-tasks: the nested task forest, the        *)
(* snapshot history (undo/redo) kept by useHistoryStorage, the local       *)
(* cache kept by useTaskStorage, and the backup folder that                *)
(* useHistoryStorage saves to (autosave modes, timer, writes in flight).   *)
(*                                                                         *)
(* A handler is one action: the state update it makes and the React        *)
(* effects that run in the render it causes (history tracking, cache       *)
(* write) are taken together.                                              *)
(***************************************************************************)
EXTENDS Integers, Sequences, FiniteSets, TLC

VARIABLES
    tasks,              \* useTaskStorage: const [tasks, setTasks]
    isLoaded,           \* useTaskStorage: const [isLoaded, setIsLoaded]
    cache,              \* localStorage[STORAGE_KEY]
    history,            \* useHistoryStorage: const [history, setHistory]
    historyIndex,       \* useHistoryStorage: const [historyIndex, ...] (0-based, -1 = none)
    isUndoRedoAction,   \* useHistoryStorage: isUndoRedoAction ref
    nextId,             \* ids handed out so far by crypto.randomUUID() (+1)
    selectedProjectId,  \* Index: selected project
    searchQuery,        \* Index: debounced search query
    nOps,               \* user operations performed since the load
    lastOp,             \* the operation performed last
    pc,                 \* position of the history scenario driver
    saved,              \* forests the scenario driver has noted
    settings,           \* useHistoryStorage: const [settings, setSettings]
    permission,         \* whether the browser grants write access to the folder
    timers,             \* pending window.setInterval timers, with the ticks run
    autoSaveIntervalRef,\* useHistoryStorage: autoSaveIntervalRef.current
    saves,              \* calls of saveToFolder / selectFolder awaiting file operations
    backupFile,         \* tasks-backup.json of the folder
    latest,             \* what the save started last was to write
    waited              \* ticks since a timer was started or last fired

vars == <<tasks, isLoaded, cache, history, historyIndex, isUndoRedoAction,
          nextId, selectedProjectId, searchQuery, nOps, lastOp, pc, saved,
          settings, permission, timers, autoSaveIntervalRef, saves,
          backupFile, latest, waited>>

store == <<tasks, isLoaded, cache, history, historyIndex, isUndoRedoAction, nextId>>
view == <<selectedProjectId, searchQuery>>
driver == <<pc, saved>>
sync == <<settings, permission, timers, autoSaveIntervalRef, saves, backupFile,
          latest, waited>>

-----------------------------------------------------------------------------
(* Program constants *)

MAX_HISTORY_SIZE == 20
MAX_DEPTH == 3

(* Bounds of the model *)

MaxOps == 3       \* user operations after the load, in Spec
MaxId == 7        \* ids that crypto.randomUUID() hands out
AutoSaveInterval == 2   \* ticks that stand for the 5 * 60 * 1000 ms of the timer
MaxWait == 3      \* ticks the clock runs on while a timer is pending
MaxSaves == 2     \* saves that await their file operations at one time
MaxFolderOps == 2 \* mutations of the forest in SpecFolder
MaxNotes == 1     \* notes a task has when the dialog adds one more

-----------------------------------------------------------------------------
(* Values *)

Null == "null"
Undefined == "undefined"
NoId == 0

Min(a, b) == IF a < b THEN a ELSE b

\* A Task object. createdAt keeps only the representation of the date: a
\* Date object, or the ISO string JSON leaves behind. A task is made without
\* notes; the places that give it notes set the field.
Task(id, title, status, completed, depth, parentId, projectId, recurrence, createdAt, subTasks) ==
    [id |-> id, title |-> title, status |-> status, completed |-> completed,
     depth |-> depth, parentId |-> parentId, projectId |-> projectId,
     recurrence |-> recurrence, createdAt |-> createdAt, subTasks |-> subTasks,
     notes |-> <<>>]

\* A TaskNote: its text and the id of the task it says it comes from.
\* originTaskId: "" is held as EmptyOrigin.
EmptyOrigin == 0
TaskNote(content, originTaskId) == [content |-> content, originTaskId |-> originTaskId]

MapTasks(ts, F(_)) == [i \in 1..Len(ts) |-> F(ts[i])]

\* Every node of a forest, parents before children.
RECURSIVE AllTasks(_)
AllTasks(ts) ==
    IF ts = <<>> THEN <<>>
    ELSE <<Head(ts)>> \o AllTasks(Head(ts).subTasks) \o AllTasks(Tail(ts))

\* A date is held in one of three forms: a Date object ("Date"), its ISO
\* string ("String"), or the tagged object {__type: "Date", value} ("Tagged").
\* JSON.stringify calls Date.prototype.toJSON before the replacer sees the
\* value, so the replacer's instanceof test never holds and a Date leaves as
\* its ISO string.
StringifyDate(d) == IF d = "Date" THEN "String" ELSE d

\* The reviver: a tagged object becomes a Date, anything else is kept.
ReviveDate(d) == IF d = "Tagged" THEN "Date" ELSE d

\* JSON.parse(JSON.stringify(tasks)), the deep copy the history makes.
RECURSIVE JsonCopy(_)
JsonCopy(ts) ==
    [i \in 1..Len(ts) |->
        [ts[i] EXCEPT !.createdAt = StringifyDate(@),
                      !.subTasks = JsonCopy(@)]]

\* serializeTasks: the JSON text, held as the value it denotes.
serializeTasks(ts) == JsonCopy(ts)

\* deserializeTasks: JSON.parse with the reviver.
RECURSIVE deserializeTasks(_)
deserializeTasks(json) ==
    [i \in 1..Len(json) |->
        [json[i] EXCEPT !.createdAt = ReviveDate(@),
                        !.subTasks = deserializeTasks(@)]]

-----------------------------------------------------------------------------
(* History effects of useHistoryStorage *)

Snapshot(ts) == JsonCopy(ts)

\* A faulty variant of PushHistory: the limit is applied one snapshot late.
PushHistoryLateLimit(prev, idx, snap) ==
    LET newHistory == Append(SubSeq(prev, 1, Min(idx + 1, Len(prev))), snap)
    IN IF Len(newHistory) > MAX_HISTORY_SIZE + 1
       THEN SubSeq(newHistory, Len(newHistory) - MAX_HISTORY_SIZE, Len(newHistory))
       ELSE newHistory

\* prev.slice(0, historyIndex + 1) then push, then the size limit.
PushHistory(prev, idx, snap) ==
    LET kept == SubSeq(prev, 1, Min(idx + 1, Len(prev)))
        newHistory == Append(kept, snap)
    IN IF Len(newHistory) > MAX_HISTORY_SIZE
       THEN SubSeq(newHistory, Len(newHistory) - MAX_HISTORY_SIZE + 1, Len(newHistory))
       ELSE newHistory

AdvanceIndex(prev) == Min(prev + 1, MAX_HISTORY_SIZE - 1)

\* "Initialize history with first state when tasks load": the state updates
\* it queues, as <<history, historyIndex>>.
InitHistoryEffect(h, i, ts, loaded) ==
    IF loaded /\ Len(h) = 0 /\ Len(ts) > 0
    THEN <<(<<Snapshot(ts)>>), 0>>
    ELSE <<h, i>>

\* A faulty variant of SameAsCurrent: the comparison is never made.
NeverSameAsCurrent(h, i, ts) == FALSE

\* "Don't add to history if tasks haven't actually changed".
SameAsCurrent(h, i, ts) ==
    /\ i >= 0
    /\ i + 1 <= Len(h)
    /\ serializeTasks(h[i + 1]) = serializeTasks(ts)

\* "Track task changes for history": h, i are the values of the render the
\* effect runs in; q is what the effects before it have queued.
TrackHistoryEffect(q, h, i, ts, loaded, flag) ==
    IF ~loaded \/ flag THEN q
    ELSE IF SameAsCurrent(h, i, ts) THEN q
    ELSE <<PushHistory(q[1], i, Snapshot(ts)), AdvanceIndex(q[2])>>

\* The effects of the render that follows a change of tasks or isLoaded.
HistoryEffects(h, i, ts, loaded, flag) ==
    TrackHistoryEffect(InitHistoryEffect(h, i, ts, loaded), h, i, ts, loaded, flag)

\* A faulty variant of SaveEffect: the cache is never written.
SaveEffectNever(ts, loaded, old) == old

\* "Save tasks to localStorage whenever they change".
SaveEffect(ts, loaded, old) == IF loaded THEN serializeTasks(ts) ELSE old

\* The render after a handler has set tasks to ts and historyIndex to idx
\* and left the ref at flag, with the effects of that render.
Render(ts, idx, flag) ==
    LET e == HistoryEffects(history, idx, ts, isLoaded, flag)
    IN /\ tasks' = ts
       /\ history' = e[1]
       /\ historyIndex' = e[2]
       /\ isUndoRedoAction' = FALSE
       /\ cache' = SaveEffect(ts, isLoaded, cache)
       /\ UNCHANGED isLoaded

canUndo == historyIndex > 0
canRedo == historyIndex < Len(history) - 1

-----------------------------------------------------------------------------
(* Text and search (searchUtils.ts); a text is a sequence of characters *)

Lower(c) == IF c = "Q" THEN "q" ELSE IF c = "A" THEN "a" ELSE c
toLowerCase(text) == [i \in 1..Len(text) |-> Lower(text[i])]

\* String.prototype.includes
Includes(text, part) ==
    \E k \in 0..(Len(text) - Len(part)) : SubSeq(text, k + 1, k + Len(part)) = part

matchesQuery(text, query) == Includes(toLowerCase(text), toLowerCase(query))

\* Title and notes: the model's tasks carry no description.
taskDirectlyMatches(task, query) ==
    \/ matchesQuery(task.title, query)
    \/ \E i \in 1..Len(task.notes) : matchesQuery(task.notes[i].content, query)

RECURSIVE collectMatchingTasks(_, _)
collectMatchingTasks(ts, query) ==
    IF ts = <<>> THEN <<>>
    ELSE LET task == Head(ts)
         IN (IF taskDirectlyMatches(task, query)
             THEN <<[task EXCEPT !.subTasks = <<>>]>> ELSE <<>>)
            \o collectMatchingTasks(task.subTasks, query)
            \o collectMatchingTasks(Tail(ts), query)

filterTasksBySearch(ts, query) ==
    IF query = <<>> THEN ts ELSE collectMatchingTasks(ts, query)

\* Index: the filteredTasks memo (no priority or label filter, default order).
filteredTasksOf(ts, project, query) ==
    LET InProject(t) == t.projectId = project
    IN filterTasksBySearch(SelectSeq(ts, InProject), query)

filteredTasks == filteredTasksOf(tasks, selectedProjectId, searchQuery)

\* Notebook: the tasks that have an entry, i.e. every task of the flattened
\* forest (the entries of notes and the order by date are left out).
buildNotebookEntries(ts) == { AllTasks(ts)[i].id : i \in 1..Len(AllTasks(ts)) }

-----------------------------------------------------------------------------
(* Tree operations of Index (part_004), DraggableTaskItem, TaskDetailDialog *)

IndexOfId(ts, id) ==
    IF \E i \in 1..Len(ts) : ts[i].id = id
    THEN CHOOSE i \in 1..Len(ts) : ts[i].id = id /\ \A j \in 1..(i - 1) : ts[j].id # id
    ELSE 0

\* completed: !task.completed, status: !task.completed ? "done" : "todo"
Flip(task) ==
    [task EXCEPT !.completed = ~task.completed,
                 !.status = IF ~task.completed THEN "done" ELSE "todo"]

\* The subtasks of a spawned occurrence: { ...st, id: crypto.randomUUID(),
\* completed: false, status: "todo" } for each direct subtask.
RespawnSubTasks(subs, firstId) ==
    [i \in 1..Len(subs) |->
        [subs[i] EXCEPT !.id = firstId + i - 1, !.completed = FALSE, !.status = "todo"]]

\* taskToToggle.recurrence && taskToToggle.recurrence.type !== "none"
IsRecurring(task) == task.recurrence \notin {Null, Undefined, "none"}

\* toggleTask's state updater; fresh ids are taken from firstId on.
toggleTask(prev, id, firstId) ==
    LET k == IndexOfId(prev, id)
        taskToToggle == prev[k]
        isCompleting == ~taskToToggle.completed
        newTask == Task(firstId, taskToToggle.title, "todo", FALSE, taskToToggle.depth,
                        taskToToggle.parentId, taskToToggle.projectId,
                        taskToToggle.recurrence, "Date",
                        RespawnSubTasks(taskToToggle.subTasks, firstId + 1))
        Done(t) == IF t.id = id
                   THEN [t EXCEPT !.completed = TRUE, !.status = "done", !.recurrence = Null]
                   ELSE t
        Flipped(t) == IF t.id = id THEN Flip(t) ELSE t
    IN IF k = 0 THEN prev
       ELSE IF isCompleting /\ IsRecurring(taskToToggle)
            THEN <<newTask>> \o MapTasks(prev, Done)
            ELSE MapTasks(prev, Flipped)

\* The ids toggleTask takes from crypto.randomUUID().
toggleTaskIds(prev, id) ==
    LET k == IndexOfId(prev, id)
    IN IF k # 0 /\ ~prev[k].completed /\ IsRecurring(prev[k])
       THEN 1 + Len(prev[k].subTasks) ELSE 0

deleteTask(prev, id) == LET Keep(t) == t.id # id IN SelectSeq(prev, Keep)

RECURSIVE updateTaskRecursive(_, _)
updateTaskRecursive(taskList, updated) ==
    [i \in 1..Len(taskList) |->
        IF taskList[i].id = updated.id THEN updated
        ELSE IF Len(taskList[i].subTasks) > 0
             THEN [taskList[i] EXCEPT !.subTasks = updateTaskRecursive(@, updated)]
             ELSE taskList[i]]

moveTaskToProject(prev, taskId, newProjectId) ==
    LET Move(t) == IF t.id = taskId THEN [t EXCEPT !.projectId = newProjectId] ELSE t
    IN MapTasks(prev, Move)

\* arrayMove of @dnd-kit/sortable: take the element out, put it back at to.
arrayMove(arr, from, to) ==
    LET without == SubSeq(arr, 1, from - 1) \o SubSeq(arr, from + 1, Len(arr))
    IN SubSeq(without, 1, to - 1) \o <<arr[from]>> \o SubSeq(without, to, Len(without))

reorderTasks(ts, project, newTasks) ==
    LET Other(t) == t.projectId # project
    IN newTasks \o SelectSeq(ts, Other)

updateSubTasks(prev, taskId, subTasks) ==
    LET Put(t) == IF t.id = taskId THEN [t EXCEPT !.subTasks = subTasks] ELSE t
    IN MapTasks(prev, Put)

\* Index.findTaskById: the first task with the id, parents before children.
findTaskById(ts, id) ==
    LET all == AllTasks(ts)
    IN IF \E i \in 1..Len(all) : all[i].id = id
       THEN all[CHOOSE i \in 1..Len(all) :
                   all[i].id = id /\ \A j \in 1..(i - 1) : all[j].id # id]
       ELSE Null

\* The id paths from a root of ts down to each of its nodes.
RECURSIVE PathsTo(_)
PathsTo(ts) ==
    UNION { {<<ts[i].id>>} \cup { <<ts[i].id>> \o p : p \in PathsTo(ts[i].subTasks) }
            : i \in 1..Len(ts) }

RECURSIVE NodeAt(_, _)
NodeAt(ts, path) ==
    LET t == ts[IndexOfId(ts, Head(path))]
    IN IF Len(path) = 1 THEN t ELSE NodeAt(t.subTasks, Tail(path))

\* DraggableTaskItem: the chain of onUpdateSubTasks callbacks from the item at
\* path up to Index.updateSubTasks; every level replaces by id.
RECURSIVE SetSubTasksAt(_, _, _)
SetSubTasksAt(ts, path, newSubTasks) ==
    [i \in 1..Len(ts) |->
        IF ts[i].id = Head(path)
        THEN [ts[i] EXCEPT !.subTasks =
                 IF Len(path) = 1 THEN newSubTasks
                 ELSE SetSubTasksAt(@, Tail(path), newSubTasks)]
        ELSE ts[i]]

\* DraggableTaskItem: onToggle and onDelete of a nested item.
ToggleSubTaskIn(subs, id) ==
    LET F(st) == IF st.id = id THEN Flip(st) ELSE st IN MapTasks(subs, F)

DeleteSubTaskIn(subs, id) == LET Keep(st) == st.id # id IN SelectSeq(subs, Keep)

\* createEmptyTask(parentId, depth, projectId) with an id and a title; an
\* undefined argument takes the parameter's default, null.
createEmptyTask(id, title, parentId, depth, projectId) ==
    Task(id, title, "todo", FALSE, depth, parentId,
         IF projectId = Undefined THEN Null ELSE projectId, Null, "Date", <<>>)

\* HierarchicalSubTaskItem.handleAddNestedSubTask: the subTasks of subTask
\* after it.
handleAddNestedSubTask(subTask, id, title) ==
    IF title # <<>> /\ subTask.depth < MAX_DEPTH
    THEN Append(subTask.subTasks,
                createEmptyTask(id, title, subTask.id, subTask.depth + 1, subTask.projectId))
    ELSE subTask.subTasks

\* TaskDetailDialog.handleAddSubTask: the dialog's subTasks after it.
handleAddSubTask(task, subs, id, title) ==
    IF title # <<>> /\ task.depth < MAX_DEPTH
    THEN Append(subs, createEmptyTask(id, title, task.id, task.depth + 1, task.projectId))
    ELSE subs

\* TaskDetailDialog.handleSave: the task handed to onUpdate.
handleSave(task, status, subs) ==
    [task EXCEPT !.status = status, !.subTasks = subs, !.completed = (status = "done")]

\* TaskDetailDialog.handleAddNote: the note goes to the front of the dialog's
\* notes, with the id of the task the dialog is open on.
handleAddNote(task, notes, content) == <<TaskNote(content, task.id)>> \o notes

\* TaskInput: a SubTaskInput tree and the tasks convertSubTasksToTasks makes.
SubTaskInput(title, subs) == [title |-> title, subTasks |-> subs]

RECURSIVE InputSize(_)
InputSize(inputs) ==
    IF inputs = <<>> THEN 0
    ELSE 1 + InputSize(Head(inputs).subTasks) + InputSize(Tail(inputs))

RECURSIVE convertSubTasksToTasks(_, _, _)
convertSubTasksToTasks(inputs, depth, firstId) ==
    LET Titled(st) == st.title # <<>>
        kept == SelectSeq(inputs, Titled)
    IN [i \in 1..Len(kept) |->
          LET id == firstId + InputSize(SubSeq(kept, 1, i - 1))
          IN Task(id, kept[i].title, "todo", FALSE, depth, NoId, Undefined, Undefined, "Date",
                  convertSubTasksToTasks(kept[i].subTasks, depth + 1, id + 1))]

\* TaskInput.handleSubmit then Index.addTask: the subtasks take their ids when
\* the form is submitted, the task takes its own in addTask; parentId, depth,
\* projectId and recurrence are those of createEmptyTask().
\* The notes typed into the form become TaskNotes with originTaskId: "".
addTask(prev, form, firstId) ==
    LET subs == convertSubTasksToTasks(form.subTasks, 1, firstId)
        Written(n) == n # <<>>
        kept == SelectSeq(form.notes, Written)
        noteObjects == [i \in 1..Len(kept) |-> TaskNote(kept[i], EmptyOrigin)]
        newTask == [Task(firstId + InputSize(form.subTasks), form.title, form.status,
                         form.status = "done", 0, NoId, Null, Null, "Date", subs)
                       EXCEPT !.notes = noteObjects]
    IN <<newTask>> \o prev

-----------------------------------------------------------------------------
(* What localStorage may hold when the app starts: nothing, or a forest the *)
(* save effect wrote earlier (dates as ISO strings, the fields a subtask    *)
(* never had left out).                                                     *)

PlainTask(id, title) ==
    Task(id, title, "todo", FALSE, 0, NoId, Null, Null, "String", <<>>)

StoredSubTask(id, title, depth, subs) ==
    Task(id, title, "todo", FALSE, depth, NoId, Undefined, Undefined, "String", subs)

\* A task that repeats daily, with a subtask that repeats weekly and has a
\* subtask of its own; the subtasks were added in the dialog, which gives
\* each the id of the task it was added to as parentId.
RecurringTask ==
    Task(1, <<"a">>, "todo", FALSE, 0, NoId, Null, "daily", "String",
         <<[StoredSubTask(2, <<"a">>, 1,
                          <<[StoredSubTask(3, <<"q">>, 2, <<>>) EXCEPT !.parentId = 2]>>)
               EXCEPT !.recurrence = "weekly", !.parentId = 1]>>)

StoredForests ==
    { <<>>,
      <<PlainTask(1, <<"a">>)>>,
      <<RecurringTask>> }

\* useState<HistorySettings>: the initial settings.
DefaultSettings ==
    [autoSaveMode |-> "every-change", folderHandle |-> Null, folderName |-> Null]

\* No timer, no save in flight, nothing written yet; autoSaveIntervalRef is
\* useRef<number | null>(null), held as NoTimer.
NoTimer == 0
SyncInit ==
    /\ permission = FALSE
    /\ timers = {}
    /\ autoSaveIntervalRef = NoTimer
    /\ saves = <<>>
    /\ backupFile = [written |-> FALSE, tasks |-> <<>>]
    /\ latest = [started |-> FALSE, tasks |-> <<>>]
    /\ waited = 0

RECURSIVE MaxIdOf(_)
MaxIdOf(ts) ==
    IF ts = <<>> THEN 0
    ELSE LET a == Head(ts).id
             b == MaxIdOf(Head(ts).subTasks)
             c == MaxIdOf(Tail(ts))
             ab == IF a > b THEN a ELSE b
         IN IF ab > c THEN ab ELSE c

Init ==
    /\ tasks = <<>>
    /\ isLoaded = FALSE
    /\ cache \in StoredForests
    /\ history = <<>>
    /\ historyIndex = -1
    /\ isUndoRedoAction = FALSE
    /\ nextId = MaxIdOf(cache) + 1
    /\ selectedProjectId = Null
    /\ searchQuery = <<>>
    /\ nOps = 0
    /\ lastOp = "init"
    /\ pc = "idle"
    /\ saved = <<>>
    /\ settings = DefaultSettings
    /\ SyncInit

\* useTaskStorage's mount effect and the render that follows it: tasks and
\* isLoaded are set together, then the effects of that render run. The save
\* effect runs in both renders: in the first with the values before the load.
LoadOp ==
    /\ ~isLoaded
    /\ LET ts == IF cache # <<>> THEN deserializeTasks(cache) ELSE tasks
           e == HistoryEffects(history, historyIndex, ts, TRUE, isUndoRedoAction)
       IN /\ tasks' = ts
          /\ isLoaded' = TRUE
          /\ history' = e[1]
          /\ historyIndex' = e[2]
          /\ isUndoRedoAction' = FALSE
          /\ cache' = SaveEffect(ts, TRUE, SaveEffect(tasks, isLoaded, cache))
    /\ UNCHANGED nextId

\* A faulty variant of UndoState: undo restores the oldest snapshot.
UndoStateOldest(h, i) == h[1]

\* A faulty variant of RedoState: redo restores the snapshot at the cursor.
RedoStateCurrent(h, i) == h[i + 1]

\* undo: history[historyIndex - 1] of the 0-based array.
UndoState(h, i) == h[i]

\* redo: history[historyIndex + 1] of the 0-based array.
RedoState(h, i) == h[i + 2]

UndoOp ==
    IF historyIndex > 0
    THEN LET prevState == UndoState(history, historyIndex)
         IN /\ Render(JsonCopy(prevState), historyIndex - 1, TRUE)
            /\ UNCHANGED nextId
    ELSE UNCHANGED store

RedoOp ==
    IF historyIndex < Len(history) - 1
    THEN LET nextState == RedoState(history, historyIndex)
         IN /\ Render(JsonCopy(nextState), historyIndex + 1, TRUE)
            /\ UNCHANGED nextId
    ELSE UNCHANGED store

-----------------------------------------------------------------------------
(* Import (useTaskStorage.importTasks) *)

Statuses == {"todo", "in-progress", "blocked", "done"}

\* tasksArraySchema.safeParse on the revived value.
RECURSIVE ValidTasks(_)
ValidTasks(ts) ==
    \A i \in 1..Len(ts) :
        /\ ts[i].status \in Statuses
        /\ ts[i].completed \in BOOLEAN
        /\ ts[i].depth \in 0..MAX_DEPTH
        /\ ts[i].createdAt = "Date"
        /\ ts[i].projectId # Undefined
        /\ ValidTasks(ts[i].subTasks)

RECURSIVE enforceMaxDepth(_, _)
enforceMaxDepth(ts, currentDepth) ==
    [i \in 1..Len(ts) |->
        [ts[i] EXCEPT !.depth = currentDepth,
                      !.recurrence = IF @ = Undefined THEN Null ELSE @,
                      !.subTasks = IF currentDepth < MAX_DEPTH
                                   THEN enforceMaxDepth(@, currentDepth + 1)
                                   ELSE <<>>]]

\* reader.onload: whether the file is accepted, and the forest setTasks then
\* receives. sanitizeString removes script tags, inline handlers and
\* "javascript:"; the titles here hold none of them.
importTasks(content) ==
    LET parsed == deserializeTasks(content)
    IN IF ValidTasks(parsed)
       THEN [accepted |-> TRUE, tasks |-> enforceMaxDepth(parsed, 0)]
       ELSE [accepted |-> FALSE, tasks |-> <<>>]

-----------------------------------------------------------------------------
(* The user's operations *)

\* setTasks with a new array, and the render that follows.
Mutate(ts) == Render(ts, historyIndex, isUndoRedoAction)

\* What the input form can hold when it is submitted.
TaskForm(title, status, subs) ==
    [title |-> title, status |-> status, subTasks |-> subs, notes |-> <<>>]

NoteText == <<"n">>

TaskForms ==
    { [TaskForm(<<"a">>, "todo", <<>>) EXCEPT !.notes = <<NoteText>>],
      TaskForm(<<"Q">>, "done", <<SubTaskInput(<<"q">>, <<>>)>>),
      TaskForm(<<"a">>, "in-progress",
               <<SubTaskInput(<<"a">>, <<SubTaskInput(<<"q">>, <<>>)>>)>>) }

Projects == {Null, "p1"}
Queries == {<<>>, <<"q">>}

AddTaskOp ==
    /\ isLoaded
    /\ \E form \in TaskForms :
          LET n == InputSize(form.subTasks) + 1
          IN /\ form.title # <<>>
             /\ nextId + n - 1 <= MaxId
             /\ Mutate(addTask(tasks, form, nextId))
             /\ nextId' = nextId + n

\* The checkbox of an item of the list.
\* onToggle of the k-th item of the list.
ToggleTaskAt(k) ==
    LET id == filteredTasks[k].id
        n == toggleTaskIds(tasks, id)
    IN /\ nextId + n - 1 <= MaxId
       /\ IF IndexOfId(tasks, id) = 0
          THEN UNCHANGED store       \* the updater returns prev: no render
          ELSE /\ Mutate(toggleTask(tasks, id, nextId))
               /\ nextId' = nextId + n

ToggleTaskOp == isLoaded /\ \E k \in 1..Len(filteredTasks) : ToggleTaskAt(k)

\* onDelete of the k-th item of the list.
DeleteTaskAt(k) ==
    /\ Mutate(deleteTask(tasks, filteredTasks[k].id))
    /\ UNCHANGED nextId

DeleteTaskOp == isLoaded /\ \E k \in 1..Len(filteredTasks) : DeleteTaskAt(k)

\* The nested items of the list: paths of at least two ids.
NestedPaths == { p \in PathsTo(filteredTasks) : Len(p) >= 2 }
Front(p) == SubSeq(p, 1, Len(p) - 1)
Last(p) == p[Len(p)]

\* onToggle of the nested item at path p.
ToggleSubTaskAt(p) ==
    LET parent == NodeAt(filteredTasks, Front(p))
    IN /\ Mutate(SetSubTasksAt(tasks, Front(p), ToggleSubTaskIn(parent.subTasks, Last(p))))
       /\ UNCHANGED nextId

ToggleSubTaskOp == isLoaded /\ \E p \in NestedPaths : ToggleSubTaskAt(p)

\* onDelete of the nested item at path p.
DeleteSubTaskAt(p) ==
    LET parent == NodeAt(filteredTasks, Front(p))
    IN /\ Mutate(SetSubTasksAt(tasks, Front(p), DeleteSubTaskIn(parent.subTasks, Last(p))))
       /\ UNCHANGED nextId

DeleteSubTaskOp == isLoaded /\ \E p \in NestedPaths : DeleteSubTaskAt(p)

\* handleSubTaskDragEnd of the item at path p.
ReorderSubTasksAt(p, from, to) ==
    LET parent == NodeAt(filteredTasks, p)
    IN /\ from # to
       /\ Mutate(SetSubTasksAt(tasks, p, arrayMove(parent.subTasks, from, to)))
       /\ UNCHANGED nextId

ReorderSubTasksOp ==
    /\ isLoaded
    /\ \E p \in PathsTo(filteredTasks) :
          \E from \in 1..Len(NodeAt(filteredTasks, p).subTasks),
             to \in 1..Len(NodeAt(filteredTasks, p).subTasks) :
                ReorderSubTasksAt(p, from, to)

\* The statuses the dialog's select is set to before Save.
DialogStatuses(task) == {task.status, "in-progress", "done"}

NewSubTaskTitle == <<"q">>

\* TaskDetailDialog opened on an item of the list (onOpen is handed the item
\* as the list holds it), optionally "add subtask", then Save.
SaveTaskAt(p, addSub, status) ==
    LET task == NodeAt(filteredTasks, p)
        subs == IF addSub
                THEN handleAddSubTask(task, task.subTasks, nextId, NewSubTaskTitle)
                ELSE task.subTasks
    IN /\ addSub => nextId <= MaxId
       /\ Mutate(updateTaskRecursive(tasks, handleSave(task, status, subs)))
       /\ nextId' = IF subs # task.subTasks THEN nextId + 1 ELSE nextId

SaveTaskOp ==
    /\ isLoaded
    /\ \E p \in PathsTo(filteredTasks), addSub \in BOOLEAN :
          \E status \in DialogStatuses(NodeAt(filteredTasks, p)) :
             SaveTaskAt(p, addSub, status)

\* The dialog opened on the item at p, "add subtask" on the nested item at r
\* of the dialog's list (the change goes up the onUpdate chain into the
\* dialog's subTasks), then Save.
AddNestedSubTaskAt(p, r) ==
    LET task == NodeAt(filteredTasks, p)
        subTask == NodeAt(task.subTasks, r)
        nested == handleAddNestedSubTask(subTask, nextId, NewSubTaskTitle)
        subs == SetSubTasksAt(task.subTasks, r, nested)
    IN /\ nextId <= MaxId
       /\ Mutate(updateTaskRecursive(tasks, handleSave(task, task.status, subs)))
       /\ nextId' = IF nested # subTask.subTasks THEN nextId + 1 ELSE nextId

\* The dialog is opened on the item at path p, a note is added, Save.
AddNoteAt(p) ==
    LET task == NodeAt(filteredTasks, p)
        saved_ == [handleSave(task, task.status, task.subTasks)
                     EXCEPT !.notes = handleAddNote(task, task.notes, NoteText)]
    IN /\ Len(task.notes) < MaxNotes
       /\ Mutate(updateTaskRecursive(tasks, saved_))
       /\ UNCHANGED nextId

AddNoteOp == isLoaded /\ \E p \in PathsTo(filteredTasks) : AddNoteAt(p)

AddNestedSubTaskOp ==
    /\ isLoaded
    /\ \E p \in PathsTo(filteredTasks) :
          \E r \in PathsTo(NodeAt(filteredTasks, p).subTasks) : AddNestedSubTaskAt(p, r)

\* Index.handleDragEnd, dropped on another item of the list.
ReorderTasksAt(a, o) ==
    LET oldIndex == IndexOfId(filteredTasks, filteredTasks[a].id)
        newIndex == IndexOfId(filteredTasks, filteredTasks[o].id)
    IN /\ filteredTasks[a].id # filteredTasks[o].id
       /\ Mutate(reorderTasks(tasks, selectedProjectId,
                              arrayMove(filteredTasks, oldIndex, newIndex)))
       /\ UNCHANGED nextId

ReorderTasksOp ==
    /\ isLoaded
    /\ \E a \in 1..Len(filteredTasks), o \in 1..Len(filteredTasks) : ReorderTasksAt(a, o)

\* Index.handleDragEnd, dropped on the inbox or a project of the sidebar.
MoveTaskToProjectOp ==
    /\ isLoaded
    /\ \E k \in 1..Len(filteredTasks), project \in Projects :
          Mutate(moveTaskToProject(tasks, filteredTasks[k].id, project))
    /\ UNCHANGED nextId

\* Files offered to the import: a backup whose dates are tagged objects and
\* whose task is completed but "todo"; a file as exportTasks writes it (dates
\* as ISO strings); a chain nested deeper than MAX_DEPTH.
FileTask(id, completed, depth, createdAt, subs) ==
    Task(id, <<"a">>, "todo", completed, depth, NoId, Null, Null, createdAt, subs)

ImportFiles ==
    { <<FileTask(1, TRUE, 0, "Tagged", <<>>)>>,
      <<FileTask(1, FALSE, 0, "String", <<>>)>>,
      <<FileTask(1, FALSE, 0, "Tagged",
          <<FileTask(2, FALSE, 0, "Tagged",
              <<FileTask(3, FALSE, 3, "Tagged",
                  <<FileTask(4, FALSE, 3, "Tagged",
                      <<FileTask(5, FALSE, 3, "Tagged", <<>>)>>)>>)>>)>>)>> }

\* importTasks of one file: reader.onload, and the render if it sets tasks.
ImportTasksOf(file) ==
    LET imported == importTasks(file)
    IN IF ~imported.accepted
       THEN UNCHANGED store
       ELSE /\ Mutate(imported.tasks)
            /\ nextId' = IF MaxIdOf(imported.tasks) >= nextId
                         THEN MaxIdOf(imported.tasks) + 1 ELSE nextId

ImportTasksOp == isLoaded /\ \E file \in ImportFiles : ImportTasksOf(file)

\* clearTasks: setTasks([]) and localStorage.removeItem; the save effect of
\* the render that follows writes the empty forest back.
ClearTasksOp ==
    /\ isLoaded
    /\ Mutate(<<>>)
    /\ UNCHANGED nextId

\* What tasks-backup.json of the folder holds: a forest saveToFolder wrote.
FolderFiles == { <<PlainTask(1, <<"a">>)>> }

\* loadFromFolder: JSON.parse with the reviver, then setTasks(parsed).
LoadFromFolderOp ==
    /\ isLoaded
    /\ \E file \in FolderFiles :
          LET parsed == deserializeTasks(file)
          IN /\ Mutate(parsed)
             /\ nextId' = IF MaxIdOf(parsed) >= nextId THEN MaxIdOf(parsed) + 1 ELSE nextId

SetSearchQueryOp ==
    /\ \E q \in Queries : q # searchQuery /\ searchQuery' = q
    /\ UNCHANGED selectedProjectId

SelectProjectOp ==
    /\ \E project \in Projects : project # selectedProjectId /\ selectedProjectId' = project
    /\ UNCHANGED searchQuery

-----------------------------------------------------------------------------
Budget == nOps < MaxOps
Did(op) == nOps' = nOps + 1 /\ lastOp' = op

Load == LoadOp /\ lastOp' = "load" /\ UNCHANGED <<nOps, view, driver, sync>>
Undo == Budget /\ UndoOp /\ Did("undo") /\ UNCHANGED <<view, driver, sync>>
Redo == Budget /\ RedoOp /\ Did("redo") /\ UNCHANGED <<view, driver, sync>>
AddTask == Budget /\ AddTaskOp /\ Did("addTask") /\ UNCHANGED <<view, driver, sync>>
ToggleTask == Budget /\ ToggleTaskOp /\ Did("toggleTask") /\ UNCHANGED <<view, driver, sync>>
DeleteTask == Budget /\ DeleteTaskOp /\ Did("deleteTask") /\ UNCHANGED <<view, driver, sync>>
ToggleSubTask == Budget /\ ToggleSubTaskOp /\ Did("toggleSubTask") /\ UNCHANGED <<view, driver, sync>>
DeleteSubTask == Budget /\ DeleteSubTaskOp /\ Did("deleteSubTask") /\ UNCHANGED <<view, driver, sync>>
ReorderSubTasks == Budget /\ ReorderSubTasksOp /\ Did("reorderSubTasks") /\ UNCHANGED <<view, driver, sync>>
SaveTask == Budget /\ SaveTaskOp /\ Did("saveTask") /\ UNCHANGED <<view, driver, sync>>
AddNestedSubTask ==
    Budget /\ AddNestedSubTaskOp /\ Did("addNestedSubTask") /\ UNCHANGED <<view, driver, sync>>
AddNote == Budget /\ AddNoteOp /\ Did("addNote") /\ UNCHANGED <<view, driver, sync>>
ReorderTasks == Budget /\ ReorderTasksOp /\ Did("reorderTasks") /\ UNCHANGED <<view, driver, sync>>
MoveTaskToProject == Budget /\ MoveTaskToProjectOp /\ Did("moveTaskToProject") /\ UNCHANGED <<view, driver, sync>>
ImportTasks == Budget /\ ImportTasksOp /\ Did("importTasks") /\ UNCHANGED <<view, driver, sync>>
ClearTasks == Budget /\ ClearTasksOp /\ Did("clearTasks") /\ UNCHANGED <<view, driver, sync>>
LoadFromFolder ==
    Budget /\ LoadFromFolderOp /\ Did("loadFromFolder") /\ UNCHANGED <<view, driver, sync>>
SetSearchQuery ==
    Budget /\ SetSearchQueryOp /\ Did("setSearchQuery") /\ UNCHANGED <<store, driver, sync>>
SelectProject ==
    Budget /\ SelectProjectOp /\ Did("selectProject") /\ UNCHANGED <<store, driver, sync>>

Next ==
    \/ Load
    \/ Undo
    \/ Redo
    \/ AddTask
    \/ ToggleTask
    \/ DeleteTask
    \/ ToggleSubTask
    \/ DeleteSubTask
    \/ ReorderSubTasks
    \/ SaveTask
    \/ AddNestedSubTask
    \/ AddNote
    \/ ReorderTasks
    \/ MoveTaskToProject
    \/ ImportTasks
    \/ ClearTasks
    \/ LoadFromFolder
    \/ SetSearchQuery
    \/ SelectProject

Spec == Init /\ [][Next]_vars

-----------------------------------------------------------------------------
(* The history at its size limit: one stored task, toggled, undone, redone *)
(* without a bound on the number of operations.                            *)

InitCap == Init /\ cache = <<PlainTask(1, <<"a">>)>>

CapLoad == LoadOp /\ lastOp' = "load" /\ UNCHANGED <<nOps, view, driver, sync>>
CapToggleTask == ToggleTaskOp /\ lastOp' = "toggleTask" /\ UNCHANGED <<nOps, view, driver, sync>>
CapUndo == isLoaded /\ UndoOp /\ lastOp' = "undo" /\ UNCHANGED <<nOps, view, driver, sync>>
CapRedo == isLoaded /\ RedoOp /\ lastOp' = "redo" /\ UNCHANGED <<nOps, view, driver, sync>>

NextCap ==
    \/ CapLoad
    \/ CapToggleTask
    \/ CapUndo
    \/ CapRedo

SpecCap == InitCap /\ [][NextCap]_vars

-----------------------------------------------------------------------------
(* The history scenario: load, three mutations, two undos, one mutation *)

\* A mutation whose forest differs by deep value from the forest before it.
MutationOp ==
    /\ \/ AddTaskOp \/ ToggleTaskOp \/ DeleteTaskOp \/ ToggleSubTaskOp
       \/ DeleteSubTaskOp \/ SaveTaskOp \/ ClearTasksOp
    /\ JsonCopy(tasks') # JsonCopy(tasks)

ScenLoad ==
    /\ pc = "idle"
    /\ LoadOp
    /\ pc' = "m1"
    /\ lastOp' = "load"
    /\ UNCHANGED <<nOps, view, saved, sync>>

ScenMutate ==
    /\ pc \in {"m1", "m2", "m3"}
    /\ MutationOp
    /\ pc' = CASE pc = "m1" -> "m2" [] pc = "m2" -> "m3" [] OTHER -> "u1"
    /\ saved' = Append(saved, JsonCopy(tasks'))
    /\ lastOp' = "mutate"
    /\ UNCHANGED <<nOps, view, sync>>

ScenUndo ==
    /\ pc \in {"u1", "u2"}
    /\ UndoOp
    /\ pc' = IF pc = "u1" THEN "u2" ELSE "m4"
    /\ lastOp' = "undo"
    /\ UNCHANGED <<nOps, view, saved, sync>>

ScenMutateAgain ==
    /\ pc = "m4"
    /\ MutationOp
    /\ pc' = "done"
    /\ lastOp' = "mutate"
    /\ UNCHANGED <<nOps, view, saved, sync>>

NextScenario ==
    \/ ScenLoad
    \/ ScenMutate
    \/ ScenUndo
    \/ ScenMutateAgain

SpecScenario == Init /\ [][NextScenario]_vars

-----------------------------------------------------------------------------
(* The backup folder: settings, autosave, the interval timer and the saves *)
(* that await their file operations                                        *)

AutoSaveModes == {"every-change", "every-5-minutes", "manual"}

\* isConnected: !!settings.folderHandle
isConnected(st) == st.folderHandle # Null

\* A call that has begun to write ts: getFileHandle and createWritable are
\* awaited in stage "open", write and close in stage "write".
NewSave(kind, ts) == [kind |-> kind, content |-> serializeTasks(ts), stage |-> "open"]

RemoveAt(seq, i) == SubSeq(seq, 1, i - 1) \o SubSeq(seq, i + 1, Len(seq))

\* "Auto-save on every change": the effect calls saveToFolder. The ref it
\* tests has been reset by the history effect, which runs before it.
EveryChangeEffect(sv, st, ts, loaded) ==
    IF st.autoSaveMode = "every-change" /\ isConnected(st) /\ loaded
    THEN Append(sv, NewSave("saveToFolder", ts))
    ELSE sv

\* clearInterval(autoSaveIntervalRef.current), if the ref holds an id.
ClearInterval(tm, ref) == { t \in tm : t.id # ref }

\* window.setInterval returns an id that no pending timer has.
FreshTimer(tm) == CHOOSE n \in 1..(Cardinality(tm) + 1) : \A t \in tm : t.id # n

TimerWanted(st) == st.autoSaveMode = "every-5-minutes" /\ isConnected(st)

\* A faulty variant of IntervalEffect: the cleanup of the previous run is
\* left out.
IntervalEffectNoCleanup(old, st, tm, ref) ==
    IF TimerWanted(st)
    THEN LET id == FreshTimer(tm)
         IN <<tm \cup {[id |-> id, elapsed |-> 0]}, id>>
    ELSE <<ClearInterval(tm, ref), NoTimer>>

\* "Auto-save every 5 minutes": the cleanup the previous run returned (it
\* returned one if it had set a timer), then the body under the settings st.
\* The result is <<timers, autoSaveIntervalRef>>.
IntervalEffect(old, st, tm, ref) ==
    LET cleaned == IF TimerWanted(old) THEN ClearInterval(tm, ref) ELSE tm
    IN IF TimerWanted(st)
       THEN LET id == FreshTimer(cleaned)
            IN <<cleaned \cup {[id |-> id, elapsed |-> 0]}, id>>
       ELSE <<ClearInterval(cleaned, ref), NoTimer>>

\* The effects of a render in which tasks, the settings or isLoaded have
\* changed: saveToFolder is a new function (it depends on tasks and on the
\* folder handle), so both autosave effects run again. sv holds the saves in
\* flight when the render begins. waited runs on only if the render was
\* caused by the forest (byTasks) and a timer was pending before it.
SyncRender(st, ts, sv, loaded, byTasks) ==
    LET started == EveryChangeEffect(sv, st, ts, loaded)
        e == IntervalEffect(settings, st, timers, autoSaveIntervalRef)
    IN /\ Len(started) <= MaxSaves
       /\ settings' = st
       /\ saves' = started
       /\ timers' = e[1]
       /\ autoSaveIntervalRef' = e[2]
       /\ latest' = IF started # sv
                    THEN [started |-> TRUE, tasks |-> serializeTasks(ts)]
                    ELSE latest
       /\ waited' = IF byTasks /\ timers # {} /\ e[1] # {} THEN waited ELSE 0

\* The state after the mount effects: the stored autoSaveMode has been read
\* (the folder handle cannot be stored), the tasks are still to be loaded;
\* nothing is stored yet.
InitFolder ==
    /\ tasks = <<>>
    /\ isLoaded = FALSE
    /\ cache = <<>>
    /\ history = <<>>
    /\ historyIndex = -1
    /\ isUndoRedoAction = FALSE
    /\ nextId = MaxIdOf(cache) + 1
    /\ selectedProjectId = Null
    /\ searchQuery = <<>>
    /\ nOps = 0
    /\ lastOp = "init"
    /\ pc = "idle"
    /\ saved = <<>>
    /\ \E mode \in AutoSaveModes : settings = [DefaultSettings EXCEPT !.autoSaveMode = mode]
    /\ SyncInit

FolderLoad ==
    /\ LoadOp
    /\ SyncRender(settings, tasks', saves, TRUE, TRUE)
    /\ lastOp' = "load"
    /\ UNCHANGED <<nOps, view, driver, permission, backupFile>>

\* A mutation of the forest while the folder side is live.
FolderAddTask ==
    /\ isLoaded
    /\ nOps < MaxFolderOps
    /\ AddTaskOp
    /\ SyncRender(settings, tasks', saves, isLoaded, TRUE)
    /\ Did("addTask")
    /\ UNCHANGED <<view, driver, permission, backupFile>>

\* setAutoSaveMode(mode)
SetAutoSaveMode ==
    /\ isLoaded
    /\ \E mode \in AutoSaveModes :
          /\ mode # settings.autoSaveMode
          /\ SyncRender([settings EXCEPT !.autoSaveMode = mode], tasks, saves, isLoaded, FALSE)
    /\ lastOp' = "setAutoSaveMode"
    /\ UNCHANGED <<store, nOps, view, driver, permission, backupFile>>

\* selectFolder: the picker resolves with a handle the user has granted
\* readwrite access to, the settings are set, the immediate save begins, and
\* the render that follows runs the autosave effects.
SelectFolder ==
    /\ isLoaded
    /\ Len(saves) < MaxSaves
    /\ SyncRender([settings EXCEPT !.folderHandle = "handle", !.folderName = "folder"],
                  tasks, Append(saves, NewSave("selectFolder", tasks)), isLoaded, FALSE)
    /\ permission' = TRUE
    /\ lastOp' = "selectFolder"
    /\ UNCHANGED <<store, nOps, view, driver, backupFile>>

\* disconnectFolder
DisconnectFolder ==
    /\ isConnected(settings)
    /\ SyncRender([settings EXCEPT !.folderHandle = Null, !.folderName = Null],
                  tasks, saves, isLoaded, FALSE)
    /\ lastOp' = "disconnectFolder"
    /\ UNCHANGED <<store, nOps, view, driver, permission, backupFile>>

\* manualSave: saveToFolder is called; isAutoSaving changes no effect's
\* dependencies.
ManualSave ==
    /\ isConnected(settings)
    /\ Len(saves) < MaxSaves
    /\ saves' = Append(saves, NewSave("saveToFolder", tasks))
    /\ latest' = [started |-> TRUE, tasks |-> serializeTasks(tasks)]
    /\ lastOp' = "manualSave"
    /\ UNCHANGED <<store, nOps, view, driver, settings, permission, timers,
                   autoSaveIntervalRef, backupFile, waited>>

\* The user or the browser withdraws the write access to the folder.
RevokePermission ==
    /\ permission
    /\ permission' = FALSE
    /\ lastOp' = "revokePermission"
    /\ UNCHANGED <<store, nOps, view, driver, settings, timers, autoSaveIntervalRef,
                   saves, backupFile, latest, waited>>

\* The first two awaits of a save resolve.
SaveOpened(i) ==
    /\ permission
    /\ saves[i].stage = "open"
    /\ saves' = [saves EXCEPT ![i].stage = "write"]
    /\ lastOp' = "saveOpened"
    /\ UNCHANGED <<store, nOps, view, driver, settings, permission, timers,
                   autoSaveIntervalRef, backupFile, latest, waited>>

\* writable.write and writable.close resolve: the file now holds what this
\* save wrote.
SaveClosed(i) ==
    /\ permission
    /\ saves[i].stage = "write"
    /\ saves' = RemoveAt(saves, i)
    /\ backupFile' = [written |-> TRUE, tasks |-> saves[i].content]
    /\ lastOp' = "saveClosed"
    /\ UNCHANGED <<store, nOps, view, driver, settings, permission, timers,
                   autoSaveIntervalRef, latest, waited>>

\* An await of a save rejects with NotAllowedError. saveToFolder's catch
\* clears the folder from the settings; selectFolder's catch shows a toast.
SaveFailed(i) ==
    /\ ~permission
    /\ IF saves[i].kind = "saveToFolder"
       THEN /\ SyncRender([settings EXCEPT !.folderHandle = Null, !.folderName = Null],
                          tasks, RemoveAt(saves, i), isLoaded, FALSE)
            /\ latest' = [started |-> FALSE, tasks |-> <<>>]
       ELSE /\ saves' = RemoveAt(saves, i)
            /\ latest' = [started |-> FALSE, tasks |-> <<>>]
            /\ UNCHANGED <<settings, timers, autoSaveIntervalRef, waited>>
    /\ lastOp' = "saveFailed"
    /\ UNCHANGED <<store, nOps, view, driver, permission, backupFile>>

SaveOpens == \E i \in 1..Len(saves) : SaveOpened(i)
SaveCloses == \E i \in 1..Len(saves) : SaveClosed(i)
SaveFails == \E i \in 1..Len(saves) : SaveFailed(i)

\* Time passes while no pending timer is due.
Tick ==
    /\ timers # {}
    /\ \A t \in timers : t.elapsed < AutoSaveInterval
    /\ waited < MaxWait
    /\ timers' = { [t EXCEPT !.elapsed = @ + 1] : t \in timers }
    /\ waited' = waited + 1
    /\ lastOp' = "tick"
    /\ UNCHANGED <<store, nOps, view, driver, settings, permission,
                   autoSaveIntervalRef, saves, backupFile, latest>>

\* A timer is due: its callback calls saveToFolder, and it runs on.
TimerFires ==
    /\ Len(saves) < MaxSaves
    /\ \E t \in timers :
          /\ t.elapsed = AutoSaveInterval
          /\ timers' = (timers \ {t}) \cup {[t EXCEPT !.elapsed = 0]}
    /\ saves' = Append(saves, NewSave("saveToFolder", tasks))
    /\ latest' = [started |-> TRUE, tasks |-> serializeTasks(tasks)]
    /\ waited' = 0
    /\ lastOp' = "timerFires"
    /\ UNCHANGED <<store, nOps, view, driver, settings, permission,
                   autoSaveIntervalRef, backupFile>>

NextFolder ==
    \/ FolderLoad
    \/ FolderAddTask
    \/ SetAutoSaveMode
    \/ SelectFolder
    \/ DisconnectFolder
    \/ ManualSave
    \/ RevokePermission
    \/ SaveOpens
    \/ SaveCloses
    \/ SaveFails
    \/ Tick
    \/ TimerFires

SpecFolder == InitFolder /\ [][NextFolder]_vars

-----------------------------------------------------------------------------
(* Properties of the history *)

\* The cursor is on a snapshot.
CursorOnSnapshot == historyIndex >= 0 /\ historyIndex < Len(history)

\* The forest tasks' is equal by deep value to the snapshot at the cursor.
EqualsSnapshotAtCursor ==
    CursorOnSnapshot /\ JsonCopy(tasks') = JsonCopy(history[historyIndex + 1])

\* The operations that set tasks, other than undo and redo.
MutationNames ==
    {"addTask", "toggleTask", "deleteTask", "toggleSubTask", "deleteSubTask",
     "reorderSubTasks", "saveTask", "addNestedSubTask", "addNote", "reorderTasks", "moveTaskToProject",
     "importTasks", "clearTasks", "loadFromFolder"}

\* A step of one of these operations, after load.
MutationStep == isLoaded /\ nOps' = nOps + 1 /\ lastOp' \in MutationNames

\* C1: a forest change after load, other than undo/redo, whose new forest
\* differs from the snapshot at the cursor leaves the history as the snapshots
\* up to and including the old cursor followed by one snapshot of the new
\* forest, with the cursor on that new snapshot and canRedo false.
C1_CheckpointAfterCursor ==
    [][ (MutationStep /\ tasks' # tasks /\ ~EqualsSnapshotAtCursor)
        => /\ history' = Append(SubSeq(history, 1, Min(historyIndex + 1, Len(history))),
                                Snapshot(tasks'))
           /\ historyIndex' = Len(history') - 1
           /\ ~canRedo' ]_vars

\* C2: undo with cursor > 0 moves the cursor back by one, sets the forest to
\* the snapshot at the new cursor and leaves the history as it was; undo with
\* cursor 0 or an empty history changes neither forest, history nor cursor.
C2_Undo ==
    [][ Undo => IF historyIndex > 0
                THEN /\ historyIndex' = historyIndex - 1
                     /\ tasks' = history[historyIndex' + 1]
                     /\ history' = history
                ELSE UNCHANGED <<tasks, history, historyIndex>> ]_vars

\* An undo has just restored a snapshot: the cursor is on it and a later
\* snapshot remains.
C2_Witness ==
    /\ lastOp = "undo"
    /\ CursorOnSnapshot
    /\ canRedo
    /\ tasks = history[historyIndex + 1]

\* C3: redo with cursor < length - 1 moves the cursor forward by one, sets the
\* forest to the snapshot at the new cursor and leaves the history as it was;
\* redo with the cursor on the last snapshot changes nothing.
C3_Redo ==
    [][ Redo => IF historyIndex < Len(history) - 1
                THEN /\ historyIndex' = historyIndex + 1
                     /\ tasks' = history[historyIndex' + 1]
                     /\ history' = history
                ELSE UNCHANGED <<tasks, history, historyIndex>> ]_vars

\* A redo has just restored a snapshot that follows at least one other.
C3_Witness ==
    /\ lastOp = "redo"
    /\ historyIndex >= 1
    /\ CursorOnSnapshot
    /\ tasks = history[historyIndex + 1]
    /\ tasks # history[historyIndex]

\* C4: the history never holds more than 20 snapshots, and a checkpoint made
\* with 20 snapshots and the cursor on the last one drops the oldest, keeps the
\* other 19 in order, appends the new one and leaves the cursor on it.
C4_HistoryCap ==
    /\ [](Len(history) <= MAX_HISTORY_SIZE)
    /\ [][ ( /\ CapToggleTask
             /\ Len(history) = MAX_HISTORY_SIZE
             /\ historyIndex = MAX_HISTORY_SIZE - 1
             /\ Len(tasks') > 0
             /\ JsonCopy(tasks') # history[MAX_HISTORY_SIZE] )
           => /\ history' = Append(Tail(history), Snapshot(tasks'))
              /\ historyIndex' = MAX_HISTORY_SIZE - 1 ]_vars

\* The history is full, the cursor is on the last snapshot, and the snapshot
\* of the loaded forest (task not completed) has been evicted.
C4_Witness ==
    /\ lastOp = "toggleTask"
    /\ Len(history) = MAX_HISTORY_SIZE
    /\ historyIndex = MAX_HISTORY_SIZE - 1
    /\ history[1][1].completed
    /\ history[MAX_HISTORY_SIZE] = JsonCopy(tasks)

\* C5: a forest change after load whose new forest equals by deep value the
\* snapshot at the cursor leaves history and cursor unchanged.
C5_NoDuplicateCheckpoint ==
    [][ (MutationStep /\ EqualsSnapshotAtCursor)
        => UNCHANGED <<history, historyIndex>> ]_vars

\* After a load of the empty store, one operation made a task (one
\* checkpoint) and a Save of the dialog that changed nothing made none.
C5_Witness ==
    /\ lastOp = "saveTask"
    /\ nOps = 2
    /\ Len(history) = 2
    /\ history[1] = <<>>
    /\ historyIndex = 1
    /\ history[2] = JsonCopy(tasks)

\* C6: right after the first load that yields a non-empty forest the history
\* holds exactly one snapshot, of the loaded forest, with the cursor on it,
\* and canUndo and canRedo are false until the first mutation; while no
\* snapshot exists canUndo and canRedo are false.
C6_InitialSnapshot ==
    /\ (isLoaded /\ lastOp = "load" /\ tasks # <<>>)
          => /\ history = <<Snapshot(tasks)>>
             /\ historyIndex = 0
             /\ ~canUndo
             /\ ~canRedo
    /\ (history = <<>>) => (~canUndo /\ ~canRedo)

\* C7: from a history holding the single snapshot S0, three distinct mutations
\* leave the cursor at index 3; two undos then restore the forest as it was
\* after the first mutation; one more mutation leaves canRedo false.
C7_Scenario ==
    /\ (pc = "u1") => (historyIndex = 3)
    /\ (pc = "m4") => (JsonCopy(tasks) = saved[1])
    /\ (pc = "done") => ~canRedo

-----------------------------------------------------------------------------
(* Properties of the forest *)

Ids(ts) == LET all == AllTasks(ts) IN { all[i].id : i \in 1..Len(all) }

UniqueIds(ts) == Cardinality(Ids(ts)) = Len(AllTasks(ts))

\* C8: no two tasks of the forest, at any nesting level, share an id.
C8_UniqueIds == UniqueIds(tasks)

\* C9: every task at every depth has completed = (status = "done").
C9_CompletedIffDone ==
    \A i \in 1..Len(AllTasks(tasks)) :
        LET t == AllTasks(tasks)[i] IN t.completed = (t.status = "done")

RECURSIVE DepthsFrom(_, _)
DepthsFrom(ts, depth) ==
    \A i \in 1..Len(ts) :
        /\ ts[i].depth = depth
        /\ DepthsFrom(ts[i].subTasks, depth + 1)

\* C10: every task of the root list has depth 0, every subtask has the depth
\* of its parent plus one, and no task of depth 3 has subtasks.
C10_Depths ==
    /\ DepthsFrom(tasks, 0)
    /\ \A i \in 1..Len(AllTasks(tasks)) :
          LET t == AllTasks(tasks)[i] IN t.depth = MAX_DEPTH => t.subTasks = <<>>

-----------------------------------------------------------------------------
(* Properties of the tree operations *)

\* ts with the subTasks of every task that has the id replaced by subs.
RECURSIVE WithSubTasks(_, _, _)
WithSubTasks(ts, id, subs) ==
    [i \in 1..Len(ts) |->
        IF ts[i].id = id THEN [ts[i] EXCEPT !.subTasks = subs]
        ELSE [ts[i] EXCEPT !.subTasks = WithSubTasks(@, id, subs)]]

\* The project a task belongs to; a task without the field belongs to none.
ProjectOf(t) == IF t.projectId = Undefined THEN Null ELSE t.projectId

\* This step added one subtask at the end of the subTasks of the task with the
\* id, or, that task being at depth 3, changed nothing.
AddedUnder(id) ==
    LET n == findTaskById(tasks, id)
        after == findTaskById(tasks', id)
        x == after.subTasks[Len(after.subTasks)]
    IN IF n.depth < MAX_DEPTH
       THEN /\ id \in Ids(tasks')
            /\ Len(after.subTasks) = Len(n.subTasks) + 1
            /\ tasks' = WithSubTasks(tasks, id, Append(n.subTasks, x))
            /\ x.depth = n.depth + 1
            /\ x.parentId = id
            /\ ProjectOf(x) = ProjectOf(n)
            /\ x.id \notin Ids(tasks)
            /\ x.subTasks = <<>>
       ELSE tasks' = tasks

\* C11: adding a subtask under task n (of a forest whose ids are distinct)
\* with depth(n) < 3 appends exactly one new task to n's subTasks, with
\* depth(n) + 1, parentId n.id and n's project, and changes nothing else; with
\* depth(n) = 3 the forest is unchanged.
C11_AddSubTask ==
    [][ UniqueIds(tasks) =>
        /\ \A p \in PathsTo(filteredTasks) :
             (lastOp' = "saveTask"
                 /\ SaveTaskAt(p, TRUE, NodeAt(filteredTasks, p).status))
             => AddedUnder(NodeAt(filteredTasks, p).id)
        /\ \A p \in PathsTo(filteredTasks) :
             \A r \in PathsTo(NodeAt(filteredTasks, p).subTasks) :
                (lastOp' = "addNestedSubTask" /\ AddNestedSubTaskAt(p, r))
                => AddedUnder(NodeAt(NodeAt(filteredTasks, p).subTasks, r).id) ]_vars
\* The forest without the task of the given id and its descendants.
RECURSIVE RemoveById(_, _)
RemoveById(ts, id) ==
    LET Keep(t) == t.id # id
        Below(t) == [t EXCEPT !.subTasks = RemoveById(@, id)]
    IN MapTasks(SelectSeq(ts, Keep), Below)

\* C12: deleting a task by id (in a forest whose ids are distinct) removes
\* that task and all its descendants, at whatever level the task is, and
\* leaves every other task unchanged and in order.
C12_Delete ==
    [][ UniqueIds(tasks) =>
        /\ \A k \in 1..Len(filteredTasks) :
             (lastOp' = "deleteTask" /\ DeleteTaskAt(k))
             => tasks' = RemoveById(tasks, filteredTasks[k].id)
        /\ \A p \in NestedPaths :
             (lastOp' = "deleteSubTask" /\ DeleteSubTaskAt(p))
             => tasks' = RemoveById(tasks, Last(p)) ]_vars

\* One list holds the tasks of the other, each once, in some order.
IsPermutation(a, b) ==
    /\ Len(a) = Len(b)
    /\ { a[i] : i \in 1..Len(a) } = { b[i] : i \in 1..Len(b) }

\* The subtasks of the task of the given id were permuted, nothing else.
PermutedUnder(id) ==
    /\ id \in Ids(tasks')
    /\ IsPermutation(findTaskById(tasks', id).subTasks, findTaskById(tasks, id).subTasks)
    /\ tasks' = WithSubTasks(tasks, id, findTaskById(tasks', id).subTasks)

\* C13: a reorder (a drag of a root item or of a subtask, in a forest whose
\* ids are distinct) only permutes the siblings of one level: the root list
\* or the subtasks of one task; the tasks, their fields and their subtrees
\* are unchanged, whatever the project selection and the search.
C13_Reorder ==
    [][ UniqueIds(tasks) =>
        /\ \A a \in 1..Len(filteredTasks), o \in 1..Len(filteredTasks) :
             (lastOp' = "reorderTasks" /\ ReorderTasksAt(a, o))
             => IsPermutation(tasks', tasks)
        /\ \A p \in PathsTo(filteredTasks) :
             \A from \in 1..Len(NodeAt(filteredTasks, p).subTasks),
                to \in 1..Len(NodeAt(filteredTasks, p).subTasks) :
                   (lastOp' = "reorderSubTasks" /\ ReorderSubTasksAt(p, from, to))
                   => PermutedUnder(Last(p)) ]_vars

\* The task of the given id was completed and its next occurrence was put at
\* the front of its sibling list; nothing else changed.
SpawnedFrom(id) ==
    LET n == findTaskById(tasks, id)
        Done(t) == IF t.id = id
                   THEN [t EXCEPT !.completed = TRUE, !.status = "done", !.recurrence = Null]
                   ELSE t
        isRoot == \E i \in 1..Len(tasks) : tasks[i].id = id
        all == AllTasks(tasks)
        parent == all[CHOOSE j \in 1..Len(all) :
                         \E i \in 1..Len(all[j].subTasks) : all[j].subTasks[i].id = id]
        old == IF isRoot THEN tasks ELSE parent.subTasks
        new == IF isRoot THEN tasks' ELSE findTaskById(tasks', parent.id).subTasks
        x == new[1]
    IN /\ Len(new) = Len(old) + 1
       /\ Tail(new) = MapTasks(old, Done)
       /\ x.id \notin Ids(tasks)
       /\ x.status = "todo" /\ x.completed = FALSE
       /\ x.depth = n.depth /\ x.parentId = n.parentId
       /\ x.projectId = n.projectId /\ x.recurrence = n.recurrence
       /\ isRoot \/ tasks' = WithSubTasks(tasks, parent.id, new)

\* C14: completing a task that repeats (daily, weekly or monthly), a root
\* task or a subtask, in a forest whose ids are distinct, puts exactly one
\* new task at the front of the same sibling list, with a fresh id, status
\* "todo", completed false and the original's depth, parentId, projectId and
\* recurrence; the original becomes done with recurrence null.
C14_RecurringSpawn ==
    [][ UniqueIds(tasks) =>
        /\ \A k \in 1..Len(filteredTasks) :
             (/\ lastOp' = "toggleTask" /\ ToggleTaskAt(k)
              /\ ~filteredTasks[k].completed /\ IsRecurring(filteredTasks[k]))
             => SpawnedFrom(filteredTasks[k].id)
        /\ \A p \in NestedPaths :
             (/\ lastOp' = "toggleSubTask" /\ ToggleSubTaskAt(p)
              /\ ~NodeAt(filteredTasks, p).completed /\ IsRecurring(NodeAt(filteredTasks, p)))
             => SpawnedFrom(Last(p)) ]_vars

\* How many tasks of the forest have the given id.
Occurrences(ts, id) ==
    Cardinality({ i \in 1..Len(AllTasks(ts)) : AllTasks(ts)[i].id = id })

\* C15: in the task spawned by completing a recurring task, every copied
\* subtask, at every nesting level, has a fresh id that is used nowhere else
\* and is reset to completed = false and status = "todo".
C15_SpawnedSubTasks ==
    [][ \A k \in 1..Len(filteredTasks) :
          (/\ lastOp' = "toggleTask" /\ ToggleTaskAt(k)
           /\ ~filteredTasks[k].completed /\ IsRecurring(filteredTasks[k]))
          => LET copies == AllTasks(tasks'[1].subTasks)
             IN \A i \in 1..Len(copies) :
                   /\ copies[i].id \notin Ids(tasks)
                   /\ Occurrences(tasks', copies[i].id) = 1
                   /\ copies[i].completed = FALSE
                   /\ copies[i].status = "todo" ]_vars

\* The forest with completed negated, and status set to match, in the task
\* of the given id and in no other.
RECURSIVE FlippedAt(_, _)
FlippedAt(ts, id) ==
    [i \in 1..Len(ts) |->
        IF ts[i].id = id
        THEN [ts[i] EXCEPT !.completed = ~@,
                           !.status = IF ts[i].completed THEN "todo" ELSE "done"]
        ELSE [ts[i] EXCEPT !.subTasks = FlippedAt(@, id)]]

PlainToggle(t) == t.completed \/ ~IsRecurring(t)

\* C16: in a forest whose ids are distinct, a toggle of a non-recurring task,
\* or a toggle back to incomplete, changes that task's completed and status
\* and nothing else; toggling a completed non-recurring task twice gives the
\* original forest.
C16_PlainToggle ==
    [][ UniqueIds(tasks) =>
        /\ \A k \in 1..Len(filteredTasks) :
             (lastOp' = "toggleTask" /\ ToggleTaskAt(k) /\ PlainToggle(filteredTasks[k]))
             => tasks' = FlippedAt(tasks, filteredTasks[k].id)
        /\ \A p \in NestedPaths :
             (lastOp' = "toggleSubTask" /\ ToggleSubTaskAt(p)
                 /\ PlainToggle(NodeAt(filteredTasks, p)))
             => tasks' = FlippedAt(tasks, Last(p))
        /\ \A i \in 1..Len(tasks) :
             (tasks[i].completed /\ ~IsRecurring(tasks[i]))
             => toggleTask(toggleTask(tasks, tasks[i].id, nextId), tasks[i].id, nextId) = tasks
      ]_vars

-----------------------------------------------------------------------------
(* Properties of the views *)

\* The task or one of its descendants has the query in its title.
SubtreeMatches(t, query) ==
    \E i \in 1..Len(AllTasks(<<t>>)) :
        Includes(toLowerCase(AllTasks(<<t>>)[i].title), toLowerCase(query))

InView(id) == \E k \in 1..Len(filteredTasks) : filteredTasks[k].id = id

\* C17: under a search, every root task of the selected project that matches
\* the query itself or has a descendant at any depth that matches it is one
\* of the tasks the search returns.
C17_SearchReturnsRoot ==
    \A i \in 1..Len(tasks) :
        (/\ searchQuery # <<>>
         /\ tasks[i].projectId = selectedProjectId
         /\ SubtreeMatches(tasks[i], searchQuery))
        => InView(tasks[i].id)

\* The task and every descendant of it are completed.
FullyCompleted(t) == \A i \in 1..Len(AllTasks(<<t>>)) : AllTasks(<<t>>)[i].completed

\* C18: a root task of the selected project is absent from the active view
\* exactly when its whole subtree is completed, and it has an entry in the
\* Notebook either way (stated for the view without a search).
C18_AutoArchive ==
    \A i \in 1..Len(tasks) :
        (searchQuery = <<>> /\ tasks[i].projectId = selectedProjectId)
        => /\ tasks[i].id \in buildNotebookEntries(tasks)
           /\ FullyCompleted(tasks[i]) <=> ~InView(tasks[i].id)

-----------------------------------------------------------------------------
(* Properties of the stored formats *)

\* C19: writing the forest with serializeTasks (the cache, the export and the
\* folder backup all use it) and reading the text back with deserializeTasks
\* gives the forest again, date fields included.
C19_RoundTrip == deserializeTasks(serializeTasks(tasks)) = tasks

\* A file's tasks as the format has them: every date readable as a date, a
\* known status, and every depth equal to the nesting level, at most
\* MAX_DEPTH.
RECURSIVE WellFormed(_, _)
WellFormed(ts, level) ==
    \A i \in 1..Len(ts) :
        /\ ts[i].createdAt = "Tagged"
        /\ ts[i].status \in Statuses
        /\ ts[i].depth = level /\ level <= MAX_DEPTH
        /\ WellFormed(ts[i].subTasks, level + 1)

\* C20: an import of a file that fails validation (here: a date that is not
\* in the format, or a task whose depth exceeds MAX_DEPTH or differs from its
\* nesting level) leaves the forest, the history and the cache as they were.
C20_ImportRejected ==
    [][ \A file \in ImportFiles :
          (lastOp' = "importTasks" /\ ImportTasksOf(file) /\ ~WellFormed(file, 0))
          => UNCHANGED <<tasks, history, historyIndex, cache>> ]_vars

-----------------------------------------------------------------------------
(* Properties of the backup folder *)

Disconnected(st) == st.folderHandle = Null /\ st.folderName = Null

\* C22: when a write to the folder fails with a permission error, in an
\* autosave, a manual save or the immediate save of selectFolder, the folder
\* is disconnected (handle and name cleared) or a call of saveToFolder is
\* still awaiting the folder, and the forest and the cache are unchanged.
C22_PermissionLoss ==
    [][ \A i \in 1..Len(saves) :
          (lastOp' = "saveFailed" /\ SaveFailed(i))
          => /\ \/ Disconnected(settings')
                \/ \E j \in 1..Len(saves') : saves'[j].kind = "saveToFolder"
             /\ tasks' = tasks
             /\ cache' = cache ]_vars

\* C23: an autosave timer is pending exactly when the mode is
\* every-5-minutes and the folder is connected, and never two.
C23_OneTimer ==
    /\ Cardinality(timers) <= 1
    /\ (timers # {}) <=> (settings.autoSaveMode = "every-5-minutes" /\ isConnected(settings))

C23_Witness ==
    /\ lastOp = "addTask"
    /\ Cardinality(timers) = 1
    /\ waited > 0

\* C24: once no save is awaiting the folder any more (and none has failed),
\* the file holds the forest of the save that was started last.
C24_NewestWins ==
    (saves = <<>> /\ latest.started)
    => (backupFile.written /\ backupFile.tasks = latest.tasks)

\* C27: while a timer is pending, no more than one interval passes without
\* the timer starting a save, however many mutations are made meanwhile.
C27_FixedInterval == waited <= AutoSaveInterval

-----------------------------------------------------------------------------
(* Properties of the notes and of the parent links *)

\* C25: every note of every task has originTaskId equal to the id of the
\* task that holds it, the task it was created on.
C25_NoteOrigin ==
    \A i \in 1..Len(AllTasks(tasks)) :
        \A n \in 1..Len(AllTasks(tasks)[i].notes) :
            AllTasks(tasks)[i].notes[n].originTaskId = AllTasks(tasks)[i].id

\* Every task of the list ts has parentId parent, and every subtask below
\* has the id of the task that holds it.
RECURSIVE ParentsMatch(_, _)
ParentsMatch(ts, parent) ==
    \A i \in 1..Len(ts) :
        /\ ts[i].parentId = parent
        /\ ParentsMatch(ts[i].subTasks, ts[i].id)

\* C26: every root task has parentId null and every subtask has the id of
\* the task that contains it as parentId.
C26_ParentIds == ParentsMatch(tasks, NoId)

-----------------------------------------------------------------------------
(* Properties of the cursor *)

\* C28: whenever the history is non-empty the cursor is the index of one of
\* its snapshots (0 <= cursor < length), so canUndo holds only when there is
\* a snapshot at cursor - 1 and canRedo only when there is one at cursor + 1.
C28_CursorInRange ==
    /\ history # <<>> => (0 <= historyIndex /\ historyIndex < Len(history))
    /\ canUndo => (historyIndex - 1) \in 0..(Len(history) - 1)
    /\ canRedo => (historyIndex + 1) \in 0..(Len(history) - 1)

\* The forest equals by deep value the snapshot at the cursor.
ForestAtCursor ==
    CursorOnSnapshot /\ JsonCopy(tasks) = JsonCopy(history[historyIndex + 1])

\* An undo that directly follows a mutation leaves a forest other than the
\* one the mutation made.
UndoLeavesMutation ==
    [][ (lastOp \in MutationNames /\ canUndo /\ Undo)
        => JsonCopy(tasks') # JsonCopy(tasks) ]_vars

\* C29: once the load has settled the forest equals by deep value the
\* snapshot at the cursor, and the first undo after a mutation puts the
\* forest in the state before that mutation, never in the same state.
C29_ForestIsCursor ==
    /\ [](isLoaded => ForestAtCursor)
    /\ UndoLeavesMutation

-----------------------------------------------------------------------------
(* Properties of the dialog *)

\* The subTasks of the task of the given id in the forest ts.
SubTasksOf(ts, id) ==
    LET all == AllTasks(ts)
        at == CHOOSE i \in 1..Len(all) : all[i].id = id
    IN all[at].subTasks

\* C30: a Save of the dialog in which no subtask was added, edited or
\* removed leaves the subTasks of the saved task (of a forest whose ids are
\* distinct) as they were, whichever view the dialog was opened from.
C30_SaveKeepsSubTasks ==
    [][ UniqueIds(tasks) =>
        \A p \in PathsTo(filteredTasks) :
           \A status \in DialogStatuses(NodeAt(filteredTasks, p)) :
              (lastOp' = "saveTask" /\ SaveTaskAt(p, FALSE, status))
              => SubTasksOf(tasks', NodeAt(filteredTasks, p).id)
                   = SubTasksOf(tasks, NodeAt(filteredTasks, p).id) ]_vars

====
